---- MODULE Spec2Model ----
(***************************************************************************)
(* Keyboard-navigation mixin of dialtone-vue (src/unnamed/part_000, lines  *)
(* 12-185) together with the host signals exercised by the combobox tests  *)
(* (src/unnamed/part_002).                                                 *)
(*                                                                         *)
(* One action is one synchronous call of a mixin method, from its first    *)
(* statement to its return or to its `await this.$nextTick()`.  The code   *)
(* after the await is a continuation kept in `pending`; the action         *)
(* NextTick resumes the oldest one.                                        *)
(***************************************************************************)
EXTENDS Integers, Sequences, FiniteSets

\* ---------------------------------------------------------------- bounds
\* longest rendered list
MaxLen == 2
\* most continuations suspended at `await this.$nextTick()` at one time
MaxPending == 1
\* the same where only the highlight-setting methods are called
MaxOverlap == 2
\* the longest list of validation messages
MaxMessages == 2
\* the most calls of getUniqueString
MaxCalls == 11

\* ------------------------------------------------------------ JS values
\* the value `undefined` where a number is expected (`return;`)
Undefined == -9
\* the value `undefined` where an element id is expected (`?.id`)
UndefinedId == "undefined"

AllIds == <<"a", "b", "c", "d">>
\* ids of the elements with role=listItemRole the host may render
ItemIds == {AllIds[k] : k \in 1..MaxLen}
\* an id no rendered item carries
NoSuchId == "z"

\* arguments the host passes to setHighlightIndex / setHighlightId
IndexArgs == -1..MaxLen
IdArgs == ItemIds \cup {NoSuchId}

\* the rendered item lists: ids are unique within a list
ItemLists == UNION {{s \in [1..n -> ItemIds] : \A i, j \in 1..n : s[i] = s[j] => i = j} : n \in 0..MaxLen}

\* what this[listElementKey]() yields: no element, or the element and its items
ListRefs == {[present |-> FALSE, items |-> <<>>]} \cup {[present |-> TRUE, items |-> s] : s \in ItemLists}

\* the options of the mixin factory
Options == [openMethod : BOOLEAN, afterHighlightMethod : BOOLEAN, beginningOfListMethod : BOOLEAN, endOfListMethod : BOOLEAN]

VARIABLES highlightIndex, highlightId, scrollToOnHighlight, focusOnKeyboardNavigation, options, listRef, activeItemEl, pending, trace,
          formattedMessages, returned, UNIQUE_ID_COUNTER, uniqueStrings

vars == <<highlightIndex, highlightId, scrollToOnHighlight, focusOnKeyboardNavigation, options, listRef, activeItemEl, pending, trace,
          formattedMessages, returned, UNIQUE_ID_COUNTER, uniqueStrings>>

\* one observable event of a synchronous step
Ev(e, a) == [ev |-> e, arg |-> a, id |-> ""]
\* the same, of a call that takes an element id
EvId(e, a, s) == [ev |-> e, arg |-> a, id |-> s]

\* ------------------------------------------------------- pure functions
\* JS `a < b` on numbers-or-undefined: any comparison with undefined is false
JsLess(a, b) == a # Undefined /\ b # Undefined /\ a < b

_getListElement(ref) == ref

_itemsLength(ref) == IF ~_getListElement(ref).present THEN 0 ELSE Len(_getListElement(ref).items)

\* the console.error of _itemsLength
_itemsLengthLog(ref) == IF ~_getListElement(ref).present THEN <<Ev("console.error", 0)>> ELSE <<>>

\* mutant: a missing list element is reported like a missing item
_getItemIndex_absentAsNoMatch(ref, id) ==
  IF ~_getListElement(ref).present THEN -1
  ELSE IF \E k \in DOMAIN ref.items : ref.items[k] = id
       THEN (CHOOSE k \in DOMAIN ref.items : ref.items[k] = id /\ \A j \in DOMAIN ref.items : ref.items[j] = id => k <= j) - 1
       ELSE -1

\* mutant: the position counted from one
_getItemIndex_fromOne(ref, id) ==
  IF ~_getListElement(ref).present THEN Undefined
  ELSE IF \E k \in DOMAIN ref.items : ref.items[k] = id
       THEN CHOOSE k \in DOMAIN ref.items : ref.items[k] = id
       ELSE -1

\* mutant: an id that matches no item gives no position at all
_getItemIndex_noMatchUndefined(ref, id) ==
  IF ~_getListElement(ref).present THEN Undefined
  ELSE IF \E k \in DOMAIN ref.items : ref.items[k] = id
       THEN (CHOOSE k \in DOMAIN ref.items : ref.items[k] = id /\ \A j \in DOMAIN ref.items : ref.items[j] = id => k <= j) - 1
       ELSE Undefined

_getItemIndex(ref, id) ==
  IF ~_getListElement(ref).present THEN Undefined
  ELSE IF \E k \in DOMAIN ref.items : ref.items[k] = id
       THEN (CHOOSE k \in DOMAIN ref.items : ref.items[k] = id /\ \A j \in DOMAIN ref.items : ref.items[j] = id => k <= j) - 1
       ELSE -1

\* mutant: the id of the item one position too far
_getItemId_offByOne(ref, index) ==
  IF ~_getListElement(ref).present THEN UndefinedId
  ELSE IF index + 2 \in DOMAIN ref.items THEN ref.items[index + 2] ELSE UndefinedId

_getItemId(ref, index) ==
  IF ~_getListElement(ref).present THEN UndefinedId
  ELSE IF index + 1 \in DOMAIN ref.items THEN ref.items[index + 1] ELSE UndefinedId

\* what _getItemIndex and _getItemId write to the console: nothing, also
\* where the list element is missing (lines 144-146, 155-157)
_getItemIndexLog(ref) == <<>>
_getItemIdLog(ref) == <<>>

\* --------------------------------------------------- validation messages
\* the message types, in the order of the comment above getValidationState
VALIDATION_MESSAGE_TYPES == [ERROR |-> "error", WARNING |-> "warning", SUCCESS |-> "success"]

\* JS null as a validation state
Null == "null"

\* formatted messages: { message, type } objects; a type outside
\* VALIDATION_MESSAGE_TYPES and an empty text are possible inputs
MessageTypes == {"error", "warning", "success", "info"}
MessageTexts == {"", "m", "n"}
Messages == [message : MessageTexts, type : MessageTypes]
MessageSeqs == UNION {[1..n -> Messages] : n \in 0..MaxMessages}
\* the argument: an array, or nothing (null / undefined)
NoMessages == [present |-> FALSE, list |-> <<>>]
MessageLists == {NoMessages} \cup {[present |-> TRUE, list |-> l] : l \in MessageSeqs}

hasFormattedMessageOfType(fm, messageType) ==
  IF ~fm.present \/ messageType = "" THEN FALSE
  ELSE \E k \in DOMAIN fm.list : fm.list[k].type = messageType

\* mutant: a warning outranks an error
getValidationState_warningFirst(fm) ==
  IF ~fm.present THEN Null
  ELSE IF hasFormattedMessageOfType(fm, VALIDATION_MESSAGE_TYPES.WARNING) THEN VALIDATION_MESSAGE_TYPES.WARNING
  ELSE IF hasFormattedMessageOfType(fm, VALIDATION_MESSAGE_TYPES.ERROR) THEN VALIDATION_MESSAGE_TYPES.ERROR
  ELSE IF hasFormattedMessageOfType(fm, VALIDATION_MESSAGE_TYPES.SUCCESS) THEN VALIDATION_MESSAGE_TYPES.SUCCESS
  ELSE Null

getValidationState(fm) ==
  IF ~fm.present THEN Null
  ELSE IF hasFormattedMessageOfType(fm, VALIDATION_MESSAGE_TYPES.ERROR) THEN VALIDATION_MESSAGE_TYPES.ERROR
  ELSE IF hasFormattedMessageOfType(fm, VALIDATION_MESSAGE_TYPES.WARNING) THEN VALIDATION_MESSAGE_TYPES.WARNING
  ELSE IF hasFormattedMessageOfType(fm, VALIDATION_MESSAGE_TYPES.SUCCESS) THEN VALIDATION_MESSAGE_TYPES.SUCCESS
  ELSE Null

KeepMessage(message, validationState) == message.message # "" /\ message.type = validationState

filterFormattedMessages(fm) ==
  LET validationState == getValidationState(fm)
  IN  IF ~fm.present \/ validationState = Null THEN <<>>
      ELSE SelectSeq(fm.list, LAMBDA message : KeepMessage(message, validationState))

\* what the last call of one of these functions returned
NoReturn == [fn |-> "", state |-> Null, list |-> <<>>, has |-> FALSE, type |-> ""]

\* ----------------------------------------------------------- unique ids
\* strings as sequences of characters
Digits == <<"0", "1", "2", "3", "4", "5", "6", "7", "8", "9">>

\* a number in a template literal: its decimal digits
RECURSIVE NumberToString(_)
NumberToString(n) ==
  IF n < 10 THEN <<Digits[n + 1]>>
  ELSE NumberToString(n \div 10) \o <<Digits[(n % 10) + 1]>>

\* the prefixes passed: one is the beginning of the other
Prefixes == {<<"a">>, <<"a", "1">>}

\* ------------------------------------------------------------- data ()
\* mutant: the first item is highlighted from the start
dataIndex_first == 1 - 1

dataIndex == -1
dataId == ""

Init ==
  /\ highlightIndex = dataIndex
  /\ highlightId = dataId
  /\ scrollToOnHighlight \in BOOLEAN
  /\ focusOnKeyboardNavigation \in BOOLEAN
  /\ options \in Options
  /\ listRef \in ListRefs
  /\ activeItemEl \in BOOLEAN
  /\ pending = <<>>
  /\ trace = <<>>
  /\ formattedMessages = NoMessages
  /\ returned = NoReturn
  /\ UNIQUE_ID_COUNTER = 0
  /\ uniqueStrings = <<>>

\* ---------------------------------------------------- method fragments
\* mutant: the emptiness of the list is not looked at
awaitsTick_anyList == options.afterHighlightMethod

\* `this[afterHighlightMethod]` is awaited for: the condition of lines 126, 136
awaitsTick == _itemsLength(listRef) # 0 /\ options.afterHighlightMethod

scrollActiveItemIntoViewIfNeeded == IF scrollToOnHighlight /\ activeItemEl THEN <<Ev("scrollIntoView", 0)>> ELSE <<>>

\* mutant: focus is given only where scrolling is enabled too
focusActiveItemIfNeeded_needsScroll == IF scrollToOnHighlight /\ focusOnKeyboardNavigation /\ activeItemEl THEN <<Ev("focus", 0)>> ELSE <<>>

focusActiveItemIfNeeded == IF focusOnKeyboardNavigation /\ activeItemEl THEN <<Ev("focus", 0)>> ELSE <<>>

openList == IF options.openMethod THEN <<Ev("open", 0)>> ELSE <<>>

\* mutant: the id is resolved before the index is written, from the old index
highlightIndexTo_staleId(num, before, after) ==
  /\ highlightIndex' = num
  /\ highlightId' = _getItemId(listRef, highlightIndex)
  /\ pending' = IF awaitsTick THEN Append(pending, [kind |-> "index", num |-> num, id |-> ""]) ELSE pending
  /\ trace' = before \o <<Ev("setHighlightIndex", num)>> \o _itemsLengthLog(listRef) \o after

\* mutant: the hook is called without awaiting $nextTick
highlightIndexTo_noAwait(num, before, after) ==
  /\ highlightIndex' = num
  /\ highlightId' = _getItemId(listRef, num)
  /\ pending' = pending
  /\ trace' = before \o <<Ev("setHighlightIndex", num)>> \o _itemsLengthLog(listRef)
               \o (IF awaitsTick THEN <<Ev("afterHighlight", num)>> ELSE <<>>) \o after

\* setHighlightIndex up to its await; `before` and `after` are the events of
\* the caller around the call
highlightIndexTo(num, before, after) ==
  /\ highlightIndex' = num
  /\ highlightId' = _getItemId(listRef, num)
  /\ pending' = IF awaitsTick THEN Append(pending, [kind |-> "index", num |-> num, id |-> ""]) ELSE pending
  /\ trace' = before \o <<Ev("setHighlightIndex", num)>> \o _itemsLengthLog(listRef) \o after

\* ------------------------------------------------------------- methods
setHighlightIndex(num) ==
  /\ highlightIndexTo(num, <<Ev("call:setHighlightIndex", num)>>, <<>>)
  /\ UNCHANGED <<scrollToOnHighlight, focusOnKeyboardNavigation, options, formattedMessages, UNIQUE_ID_COUNTER, uniqueStrings, returned, listRef, activeItemEl>>

setHighlightId(id) ==
  /\ highlightId' = id
  /\ highlightIndex' = _getItemIndex(listRef, id)
  /\ pending' = IF awaitsTick THEN Append(pending, [kind |-> "id", num |-> 0, id |-> id]) ELSE pending
  /\ trace' = <<EvId("call:setHighlightId", 0, id), EvId("setHighlightId", _getItemIndex(listRef, id), id)>> \o _itemsLengthLog(listRef)
  /\ UNCHANGED <<scrollToOnHighlight, focusOnKeyboardNavigation, options, formattedMessages, UNIQUE_ID_COUNTER, uniqueStrings, returned, listRef, activeItemEl>>

\* mutant: the first item is not a boundary
onUpKey_pastStart ==
  /\ IF JsLess(-1, highlightIndex)
     THEN highlightIndexTo(highlightIndex - 1, <<Ev("call:onUpKey", 0)>> \o openList, scrollActiveItemIntoViewIfNeeded \o focusActiveItemIfNeeded)
     ELSE /\ trace' = <<Ev("call:onUpKey", 0)>> \o openList
                      \o (IF options.beginningOfListMethod THEN <<Ev("beginningOfList", 0)>> ELSE <<>>)
                      \o scrollActiveItemIntoViewIfNeeded \o focusActiveItemIfNeeded
          /\ UNCHANGED <<highlightIndex, highlightId, pending>>
  /\ UNCHANGED <<scrollToOnHighlight, focusOnKeyboardNavigation, options, formattedMessages, UNIQUE_ID_COUNTER, uniqueStrings, returned, listRef, activeItemEl>>

\* mutant: an index past the end of the list is brought back to the last item
onUpKey_clampStale ==
  /\ IF JsLess(0, highlightIndex)
     THEN highlightIndexTo(IF JsLess(_itemsLength(listRef), highlightIndex) THEN _itemsLength(listRef) - 1 ELSE highlightIndex - 1,
                           <<Ev("call:onUpKey", 0)>> \o openList, scrollActiveItemIntoViewIfNeeded \o focusActiveItemIfNeeded)
     ELSE /\ trace' = <<Ev("call:onUpKey", 0)>> \o openList
                      \o (IF options.beginningOfListMethod THEN <<Ev("beginningOfList", 0)>> ELSE <<>>)
                      \o scrollActiveItemIntoViewIfNeeded \o focusActiveItemIfNeeded
          /\ UNCHANGED <<highlightIndex, highlightId, pending>>
  /\ UNCHANGED <<scrollToOnHighlight, focusOnKeyboardNavigation, options, formattedMessages, UNIQUE_ID_COUNTER, uniqueStrings, returned, listRef, activeItemEl>>

onUpKey ==
  /\ IF JsLess(0, highlightIndex)
     THEN highlightIndexTo(highlightIndex - 1, <<Ev("call:onUpKey", 0)>> \o openList, scrollActiveItemIntoViewIfNeeded \o focusActiveItemIfNeeded)
     ELSE /\ trace' = <<Ev("call:onUpKey", 0)>> \o openList
                      \o (IF options.beginningOfListMethod THEN <<Ev("beginningOfList", 0)>> ELSE <<>>)
                      \o scrollActiveItemIntoViewIfNeeded \o focusActiveItemIfNeeded
          /\ UNCHANGED <<highlightIndex, highlightId, pending>>
  /\ UNCHANGED <<scrollToOnHighlight, focusOnKeyboardNavigation, options, formattedMessages, UNIQUE_ID_COUNTER, uniqueStrings, returned, listRef, activeItemEl>>

\* mutant: the list is opened after the highlight has moved
onDownKey_openLast ==
  /\ IF JsLess(highlightIndex, _itemsLength(listRef) - 1)
     THEN highlightIndexTo(highlightIndex + 1, <<Ev("call:onDownKey", 0)>> \o _itemsLengthLog(listRef), openList \o scrollActiveItemIntoViewIfNeeded \o focusActiveItemIfNeeded)
     ELSE /\ trace' = <<Ev("call:onDownKey", 0)>> \o _itemsLengthLog(listRef)
                      \o (IF options.endOfListMethod THEN <<Ev("endOfList", 0)>> ELSE <<>>)
                      \o openList \o scrollActiveItemIntoViewIfNeeded \o focusActiveItemIfNeeded
          /\ UNCHANGED <<highlightIndex, highlightId, pending>>
  /\ UNCHANGED <<scrollToOnHighlight, focusOnKeyboardNavigation, options, formattedMessages, UNIQUE_ID_COUNTER, uniqueStrings, returned, listRef, activeItemEl>>

\* mutant: moving down from the last item wraps around to the first
onDownKey_wrapAround ==
  /\ IF JsLess(highlightIndex, _itemsLength(listRef) - 1)
     THEN highlightIndexTo(highlightIndex + 1, <<Ev("call:onDownKey", 0)>> \o openList \o _itemsLengthLog(listRef), scrollActiveItemIntoViewIfNeeded \o focusActiveItemIfNeeded)
     ELSE highlightIndexTo(0, <<Ev("call:onDownKey", 0)>> \o openList \o _itemsLengthLog(listRef)
                              \o (IF options.endOfListMethod THEN <<Ev("endOfList", 0)>> ELSE <<>>),
                           scrollActiveItemIntoViewIfNeeded \o focusActiveItemIfNeeded)
  /\ UNCHANGED <<scrollToOnHighlight, focusOnKeyboardNavigation, options, formattedMessages, UNIQUE_ID_COUNTER, uniqueStrings, returned, listRef, activeItemEl>>

\* mutant: the last item is not a boundary
onDownKey_pastEnd ==
  /\ IF JsLess(highlightIndex, _itemsLength(listRef))
     THEN highlightIndexTo(highlightIndex + 1, <<Ev("call:onDownKey", 0)>> \o openList \o _itemsLengthLog(listRef), scrollActiveItemIntoViewIfNeeded \o focusActiveItemIfNeeded)
     ELSE /\ trace' = <<Ev("call:onDownKey", 0)>> \o openList \o _itemsLengthLog(listRef)
                      \o (IF options.endOfListMethod THEN <<Ev("endOfList", 0)>> ELSE <<>>)
                      \o scrollActiveItemIntoViewIfNeeded \o focusActiveItemIfNeeded
          /\ UNCHANGED <<highlightIndex, highlightId, pending>>
  /\ UNCHANGED <<scrollToOnHighlight, focusOnKeyboardNavigation, options, formattedMessages, UNIQUE_ID_COUNTER, uniqueStrings, returned, listRef, activeItemEl>>

onDownKey ==
  /\ IF JsLess(highlightIndex, _itemsLength(listRef) - 1)
     THEN highlightIndexTo(highlightIndex + 1, <<Ev("call:onDownKey", 0)>> \o openList \o _itemsLengthLog(listRef), scrollActiveItemIntoViewIfNeeded \o focusActiveItemIfNeeded)
     ELSE /\ trace' = <<Ev("call:onDownKey", 0)>> \o openList \o _itemsLengthLog(listRef)
                      \o (IF options.endOfListMethod THEN <<Ev("endOfList", 0)>> ELSE <<>>)
                      \o scrollActiveItemIntoViewIfNeeded \o focusActiveItemIfNeeded
          /\ UNCHANGED <<highlightIndex, highlightId, pending>>
  /\ UNCHANGED <<scrollToOnHighlight, focusOnKeyboardNavigation, options, formattedMessages, UNIQUE_ID_COUNTER, uniqueStrings, returned, listRef, activeItemEl>>

jumpToBeginning ==
  /\ highlightIndexTo(0, <<Ev("call:jumpToBeginning", 0)>>, <<>>)
  /\ UNCHANGED <<scrollToOnHighlight, focusOnKeyboardNavigation, options, formattedMessages, UNIQUE_ID_COUNTER, uniqueStrings, returned, listRef, activeItemEl>>

\* mutant: the item count is taken for the last position
jumpToEnd_countAsIndex ==
  /\ highlightIndexTo(_itemsLength(listRef), <<Ev("call:jumpToEnd", 0)>> \o _itemsLengthLog(listRef), <<>>)
  /\ UNCHANGED <<scrollToOnHighlight, focusOnKeyboardNavigation, options, formattedMessages, UNIQUE_ID_COUNTER, uniqueStrings, returned, listRef, activeItemEl>>

jumpToEnd ==
  /\ highlightIndexTo(_itemsLength(listRef) - 1, <<Ev("call:jumpToEnd", 0)>> \o _itemsLengthLog(listRef), <<>>)
  /\ UNCHANGED <<scrollToOnHighlight, focusOnKeyboardNavigation, options, formattedMessages, UNIQUE_ID_COUNTER, uniqueStrings, returned, listRef, activeItemEl>>

onHomeKey ==
  /\ highlightIndexTo(0, <<Ev("call:onHomeKey", 0)>>, scrollActiveItemIntoViewIfNeeded \o focusActiveItemIfNeeded)
  /\ UNCHANGED <<scrollToOnHighlight, focusOnKeyboardNavigation, options, formattedMessages, UNIQUE_ID_COUNTER, uniqueStrings, returned, listRef, activeItemEl>>

onEndKey ==
  /\ highlightIndexTo(_itemsLength(listRef) - 1, <<Ev("call:onEndKey", 0)>> \o _itemsLengthLog(listRef), scrollActiveItemIntoViewIfNeeded \o focusActiveItemIfNeeded)
  /\ UNCHANGED <<scrollToOnHighlight, focusOnKeyboardNavigation, options, formattedMessages, UNIQUE_ID_COUNTER, uniqueStrings, returned, listRef, activeItemEl>>

\* mutant: the newest continuation is resumed first
NextTick_newestFirst ==
  /\ pending # <<>>
  /\ trace' = <<Ev("resume", 0), Ev("afterHighlight", IF pending[Len(pending)].kind = "index" THEN pending[Len(pending)].num ELSE _getItemIndex(listRef, pending[Len(pending)].id))>>
  /\ pending' = SubSeq(pending, 1, Len(pending) - 1)
  /\ UNCHANGED <<highlightIndex, highlightId, scrollToOnHighlight, focusOnKeyboardNavigation, options, formattedMessages, UNIQUE_ID_COUNTER, uniqueStrings, returned, listRef, activeItemEl>>

\* mutant: the hook is given the index as it is at the resumption
NextTick_hookReadsIndex ==
  /\ pending # <<>>
  /\ trace' = <<Ev("resume", 0), Ev("afterHighlight", highlightIndex)>>
  /\ pending' = Tail(pending)
  /\ UNCHANGED <<highlightIndex, highlightId, scrollToOnHighlight, focusOnKeyboardNavigation, options, formattedMessages, UNIQUE_ID_COUNTER, uniqueStrings, returned, listRef, activeItemEl>>

\* the continuation of the oldest suspended setHighlightIndex / setHighlightId
NextTick ==
  /\ pending # <<>>
  /\ trace' = <<Ev("resume", 0), Ev("afterHighlight", IF Head(pending).kind = "index" THEN Head(pending).num ELSE _getItemIndex(listRef, Head(pending).id))>>
  /\ pending' = Tail(pending)
  /\ UNCHANGED <<highlightIndex, highlightId, scrollToOnHighlight, focusOnKeyboardNavigation, options, formattedMessages, UNIQUE_ID_COUNTER, uniqueStrings, returned, listRef, activeItemEl>>

\* the resolution methods, called on their own
itemsLengthCall ==
  /\ trace' = <<Ev("call:_itemsLength", 0)>> \o _itemsLengthLog(listRef) \o <<Ev("return", _itemsLength(listRef))>>
  /\ UNCHANGED <<highlightIndex, highlightId, scrollToOnHighlight, focusOnKeyboardNavigation, options, formattedMessages, UNIQUE_ID_COUNTER, uniqueStrings, returned, listRef, activeItemEl, pending>>

getItemIndexCall(id) ==
  /\ trace' = <<EvId("call:_getItemIndex", 0, id)>> \o _getItemIndexLog(listRef) \o <<Ev("return", _getItemIndex(listRef, id))>>
  /\ UNCHANGED <<highlightIndex, highlightId, scrollToOnHighlight, focusOnKeyboardNavigation, options, formattedMessages, UNIQUE_ID_COUNTER, uniqueStrings, returned, listRef, activeItemEl, pending>>

getItemIdCall(index) ==
  /\ trace' = <<Ev("call:_getItemId", index)>> \o _getItemIdLog(listRef) \o <<EvId("return", 0, _getItemId(listRef, index))>>
  /\ UNCHANGED <<highlightIndex, highlightId, scrollToOnHighlight, focusOnKeyboardNavigation, options, formattedMessages, UNIQUE_ID_COUNTER, uniqueStrings, returned, listRef, activeItemEl, pending>>

\* mutant: the counter starts over after ten ids
getUniqueString_startsOver(prefix) ==
  /\ uniqueStrings' = Append(uniqueStrings, [prefix |-> prefix, string |-> prefix \o NumberToString(UNIQUE_ID_COUNTER)])
  /\ UNIQUE_ID_COUNTER' = (UNIQUE_ID_COUNTER + 1) % 10
  /\ trace' = <<Ev("call:getUniqueString", 0)>>
  /\ UNCHANGED <<highlightIndex, highlightId, scrollToOnHighlight, focusOnKeyboardNavigation, options, formattedMessages, returned, listRef, activeItemEl, pending>>

\* `${prefix}${UNIQUE_ID_COUNTER++}`; uniqueStrings records what the calls returned
getUniqueString(prefix) ==
  /\ uniqueStrings' = Append(uniqueStrings, [prefix |-> prefix, string |-> prefix \o NumberToString(UNIQUE_ID_COUNTER)])
  /\ UNIQUE_ID_COUNTER' = UNIQUE_ID_COUNTER + 1
  /\ trace' = <<Ev("call:getUniqueString", 0)>>
  /\ UNCHANGED <<highlightIndex, highlightId, scrollToOnHighlight, focusOnKeyboardNavigation, options, formattedMessages, returned, listRef, activeItemEl, pending>>

\* the validation functions, called on the messages at hand
getValidationStateCall ==
  /\ returned' = [NoReturn EXCEPT !.fn = "getValidationState", !.state = getValidationState(formattedMessages)]
  /\ trace' = <<Ev("call:getValidationState", 0)>>
  /\ UNCHANGED <<highlightIndex, highlightId, scrollToOnHighlight, focusOnKeyboardNavigation, options, formattedMessages, UNIQUE_ID_COUNTER, uniqueStrings, listRef, activeItemEl, pending>>

filterFormattedMessagesCall ==
  /\ returned' = [NoReturn EXCEPT !.fn = "filterFormattedMessages", !.list = filterFormattedMessages(formattedMessages)]
  /\ trace' = <<Ev("call:filterFormattedMessages", 0)>>
  /\ UNCHANGED <<highlightIndex, highlightId, scrollToOnHighlight, focusOnKeyboardNavigation, options, formattedMessages, UNIQUE_ID_COUNTER, uniqueStrings, listRef, activeItemEl, pending>>

hasFormattedMessageOfTypeCall(messageType) ==
  /\ returned' = [NoReturn EXCEPT !.fn = "hasFormattedMessageOfType", !.type = messageType,
                                  !.has = hasFormattedMessageOfType(formattedMessages, messageType)]
  /\ trace' = <<Ev("call:hasFormattedMessageOfType", 0)>>
  /\ UNCHANGED <<highlightIndex, highlightId, scrollToOnHighlight, focusOnKeyboardNavigation, options, formattedMessages, UNIQUE_ID_COUNTER, uniqueStrings, listRef, activeItemEl, pending>>

\* ---------------------------------------------------------------- host
\* the host renders another list, or removes the list element
HostRender ==
  /\ \E r \in ListRefs \ {listRef} : listRef' = r
  /\ activeItemEl' \in BOOLEAN
  /\ trace' = <<Ev("render", 0)>>
  /\ UNCHANGED <<highlightIndex, highlightId, scrollToOnHighlight, focusOnKeyboardNavigation, options, formattedMessages, UNIQUE_ID_COUNTER, uniqueStrings, returned, pending>>

\* the pointer leaves the list wrapper
MouseLeave ==
  /\ highlightIndex' = -1
  /\ trace' = <<Ev("mouseleave", 0)>>
  /\ UNCHANGED <<highlightId, scrollToOnHighlight, focusOnKeyboardNavigation, options, formattedMessages, UNIQUE_ID_COUNTER, uniqueStrings, returned, listRef, activeItemEl, pending>>

\* the list wrapper loses focus
FocusOut ==
  /\ highlightIndex' = -1
  /\ trace' = <<Ev("focusout", 0)>>
  /\ UNCHANGED <<highlightId, scrollToOnHighlight, focusOnKeyboardNavigation, options, formattedMessages, UNIQUE_ID_COUNTER, uniqueStrings, returned, listRef, activeItemEl, pending>>

\* ------------------------------------------------------ specifications
\* every method and every host signal
Next ==
  \/ onUpKey /\ Len(pending') <= MaxPending
  \/ onDownKey /\ Len(pending') <= MaxPending
  \/ onHomeKey /\ Len(pending') <= MaxPending
  \/ onEndKey /\ Len(pending') <= MaxPending
  \/ jumpToBeginning /\ Len(pending') <= MaxPending
  \/ jumpToEnd /\ Len(pending') <= MaxPending
  \/ \E num \in IndexArgs : setHighlightIndex(num) /\ Len(pending') <= MaxPending
  \/ \E id \in IdArgs : setHighlightId(id) /\ Len(pending') <= MaxPending
  \/ NextTick
  \/ HostRender
  \/ MouseLeave
  \/ FocusOut

Spec == Init /\ [][Next]_vars

\* the same over a list the host leaves as it is
NextStatic ==
  \/ onUpKey /\ Len(pending') <= MaxPending
  \/ onDownKey /\ Len(pending') <= MaxPending
  \/ onHomeKey /\ Len(pending') <= MaxPending
  \/ onEndKey /\ Len(pending') <= MaxPending
  \/ jumpToBeginning /\ Len(pending') <= MaxPending
  \/ jumpToEnd /\ Len(pending') <= MaxPending
  \/ \E num \in IndexArgs : setHighlightIndex(num) /\ Len(pending') <= MaxPending
  \/ \E id \in IdArgs : setHighlightId(id) /\ Len(pending') <= MaxPending
  \/ NextTick
  \/ MouseLeave
  \/ FocusOut

SpecStatic == Init /\ [][NextStatic]_vars

\* the key-driven operations alone, over a list the host leaves as it is
NextKeys ==
  \/ onUpKey /\ Len(pending') <= MaxOverlap
  \/ onDownKey /\ Len(pending') <= MaxOverlap
  \/ onHomeKey /\ Len(pending') <= MaxOverlap
  \/ onEndKey /\ Len(pending') <= MaxOverlap
  \/ jumpToBeginning /\ Len(pending') <= MaxOverlap
  \/ jumpToEnd /\ Len(pending') <= MaxOverlap
  \/ NextTick

SpecKeys == Init /\ [][NextKeys]_vars

\* the options and data that setHighlightIndex and setHighlightId never read
\* are at their defaults (lines 25, 29, 31, 33, 35), no active item
InitHighlight ==
  /\ Init
  /\ ~options.openMethod /\ ~options.beginningOfListMethod /\ ~options.endOfListMethod
  /\ scrollToOnHighlight /\ ~focusOnKeyboardNavigation /\ ~activeItemEl

\* the highlight-setting methods alone, their continuations, and the host
\* rendering between a call and its resumption
NextHighlight ==
  \/ \E num \in IndexArgs : setHighlightIndex(num) /\ Len(pending') <= MaxOverlap
  \/ \E id \in IdArgs : setHighlightId(id) /\ Len(pending') <= MaxOverlap
  \/ NextTick
  \/ HostRender /\ activeItemEl' = activeItemEl

SpecHighlight == InitHighlight /\ [][NextHighlight]_vars

\* no open hook, no scrolling or focusing, no active item, as InitHighlight
InitKeysRender ==
  /\ Init
  /\ ~options.openMethod
  /\ scrollToOnHighlight /\ ~focusOnKeyboardNavigation /\ ~activeItemEl

\* the arrow keys over a list the host renders anew between the calls
NextKeysRender ==
  \/ onUpKey /\ Len(pending') <= MaxPending
  \/ onDownKey /\ Len(pending') <= MaxPending
  \/ NextTick
  \/ HostRender /\ activeItemEl' = activeItemEl

SpecKeysRender == InitKeysRender /\ [][NextKeysRender]_vars

\* the resolution methods called between highlight-setting calls
NextLookup ==
  \/ itemsLengthCall
  \/ \E id \in IdArgs : getItemIndexCall(id)
  \/ \E index \in IndexArgs : getItemIdCall(index)
  \/ \E num \in IndexArgs : setHighlightIndex(num) /\ Len(pending') <= MaxPending
  \/ \E id \in IdArgs : setHighlightId(id) /\ Len(pending') <= MaxPending
  \/ NextTick

SpecLookup == InitHighlight /\ [][NextLookup]_vars

\* the validation functions over any messages; the mixin is not in use
InitMessages ==
  /\ highlightIndex = dataIndex
  /\ highlightId = dataId
  /\ scrollToOnHighlight = TRUE
  /\ focusOnKeyboardNavigation = FALSE
  /\ options = [openMethod |-> FALSE, afterHighlightMethod |-> FALSE, beginningOfListMethod |-> FALSE, endOfListMethod |-> FALSE]
  /\ listRef = [present |-> FALSE, items |-> <<>>]
  /\ activeItemEl = FALSE
  /\ pending = <<>>
  /\ trace = <<>>
  /\ formattedMessages \in MessageLists
  /\ returned = NoReturn
  /\ UNIQUE_ID_COUNTER = 0
  /\ uniqueStrings = <<>>

NextMessages ==
  \/ getValidationStateCall
  \/ filterFormattedMessagesCall
  \/ \E messageType \in MessageTypes \cup {""} : hasFormattedMessageOfTypeCall(messageType)

SpecMessages == InitMessages /\ [][NextMessages]_vars

\* getUniqueString among the other functions of its module
InitUnique ==
  /\ InitMessages
  /\ formattedMessages = NoMessages

NextUnique ==
  \/ \E prefix \in Prefixes : getUniqueString(prefix) /\ Len(uniqueStrings) < MaxCalls
  \/ getValidationStateCall
  \/ filterFormattedMessagesCall

SpecUnique == InitUnique /\ [][NextUnique]_vars

\* ------------------------------------------------------------ properties
\* how often event e occurs in the events tr of one step
EvCount(tr, e) == Cardinality({k \in DOMAIN tr : tr[k].ev = e})

\* the step with events tr is a call of method m
IsCall(tr, m) == tr # <<>> /\ tr[1].ev = m

\* moveUp, moveDown, jumpToStart, jumpToEnd, setHighlightByIndex, setHighlightById
NavCalls == {"call:onUpKey", "call:onDownKey", "call:jumpToBeginning", "call:jumpToEnd", "call:setHighlightIndex", "call:setHighlightId"}

\* number of rendered items
N == Len(listRef.items)

\* C1: on a list of N >= 1 items every onDownKey call made with the index
\* below N-1 raises the index by exactly one and does not call the
\* end-of-list hook; a call made with the index at N-1 leaves it there and
\* calls the end-of-list hook (when one is configured) exactly once; the
\* index never exceeds N-1.
C1_MoveDownSaturates ==
  [][(IsCall(trace', "call:onDownKey") /\ listRef.present /\ N >= 1 /\ highlightIndex \in -1..(N - 1)) =>
       /\ highlightIndex' <= N - 1
       /\ highlightIndex < N - 1 => (highlightIndex' = highlightIndex + 1 /\ EvCount(trace', "endOfList") = 0)
       /\ highlightIndex = N - 1 => (highlightIndex' = highlightIndex /\ EvCount(trace', "endOfList") = (IF options.endOfListMethod THEN 1 ELSE 0))]_vars

\* the call after the last item of a two-item list was reached: hook called, index kept
C1_Witness == IsCall(trace, "call:onDownKey") /\ listRef.present /\ N = 2 /\ highlightIndex = 1 /\ EvCount(trace, "endOfList") = 1

\* C2: on a list of N >= 1 items every onUpKey call made with the index
\* above 0 lowers the index by exactly one and does not call the
\* beginning-of-list hook; a call made with the index at 0 leaves it at 0
\* and calls the beginning-of-list hook (when one is configured) exactly
\* once; the index never goes below 0.
C2_MoveUpSaturates ==
  [][(IsCall(trace', "call:onUpKey") /\ listRef.present /\ N >= 1 /\ highlightIndex \in 0..(N - 1)) =>
       /\ highlightIndex' >= 0
       /\ highlightIndex > 0 => (highlightIndex' = highlightIndex - 1 /\ EvCount(trace', "beginningOfList") = 0)
       /\ highlightIndex = 0 => (highlightIndex' = highlightIndex /\ EvCount(trace', "beginningOfList") = (IF options.beginningOfListMethod THEN 1 ELSE 0))]_vars

\* the call on the first item: hook called, index kept at 0
C2_Witness == IsCall(trace, "call:onUpKey") /\ listRef.present /\ N = 2 /\ highlightIndex = 0 /\ highlightId = listRef.items[1] /\ EvCount(trace, "beginningOfList") = 1

\* C3: while the list accessor returns nothing, a navigation call changes
\* neither index nor id and calls no hook, scrolls nothing, focuses nothing.
C3_AbsentListNoOp ==
  [][(~listRef.present /\ trace' # <<>> /\ trace'[1].ev \in NavCalls) =>
       /\ highlightIndex' = highlightIndex
       /\ highlightId' = highlightId
       /\ pending' = pending
       /\ \A k \in DOMAIN trace' : trace'[k].ev \notin {"open", "beginningOfList", "endOfList", "afterHighlight", "scrollIntoView", "focus"}]_vars

C5_IndexValid == listRef.present => (highlightIndex = -1 \/ highlightIndex \in 0..(N - 1))

\* C6: after setHighlightIndex(i) the stored index is i and the stored id is
\* what _getItemId(i) returns on the same list: the id of item i, or
\* undefined where the list has no item i.
C6_IndexThenLookup ==
  [][IsCall(trace', "call:setHighlightIndex") =>
       /\ highlightIndex' = trace'[1].arg
       /\ highlightId' = _getItemId(listRef', trace'[1].arg)
       /\ (listRef'.present /\ trace'[1].arg \in 0..(Len(listRef'.items) - 1)) => highlightId' = listRef'.items[trace'[1].arg + 1]]_vars

\* setHighlightIndex(1) on a two-item list: the id of the second item is stored
C6_Witness == IsCall(trace, "call:setHighlightIndex") /\ trace[1].arg = 1 /\ listRef.present /\ N = 2 /\ highlightIndex = 1 /\ highlightId = listRef.items[2]

Sets(tr) == EvCount(tr, "setHighlightIndex") + EvCount(tr, "setHighlightId") > 0

\* C8: the step that writes index and id never calls the after-highlight
\* hook; it suspends one continuation behind those already waiting; the hook
\* is called only by the resumption of the oldest continuation, one per
\* $nextTick resumption, in a step that writes neither index nor id.
C8_HookAfterTick ==
  [][/\ Sets(trace') => /\ EvCount(trace', "afterHighlight") = 0
                        /\ pending' = pending \/ (Len(pending') = Len(pending) + 1 /\ SubSeq(pending', 1, Len(pending)) = pending)
     /\ EvCount(trace', "afterHighlight") > 0 =>
          /\ IsCall(trace', "resume")
          /\ EvCount(trace', "afterHighlight") = 1
          /\ pending # <<>> /\ pending' = Tail(pending)
          /\ highlightIndex' = highlightIndex /\ highlightId' = highlightId
     /\ pending' # pending => (Sets(trace') \/ IsCall(trace', "resume"))]_vars

\* the hook of setHighlightIndex(0) runs in its own step, after a second
\* call wrote index 1 and while that call's continuation still waits
C8_Witness == IsCall(trace, "resume") /\ trace[2] = Ev("afterHighlight", 0) /\ highlightIndex = 1 /\ Len(pending) = 1

\* C9: a step that runs setHighlightIndex(i) suspends exactly one
\* continuation for i if a hook is configured and the list is non-empty, and
\* none otherwise; the resumption of a continuation for i calls the hook
\* exactly once, with i, and nothing else calls it.
C9_OneHookPerCall ==
  [][/\ EvCount(trace', "setHighlightIndex") > 0 =>
          /\ EvCount(trace', "setHighlightIndex") = 1
          /\ EvCount(trace', "afterHighlight") = 0
          /\ \A k \in DOMAIN trace' : trace'[k].ev = "setHighlightIndex" =>
               IF options.afterHighlightMethod /\ listRef.present /\ N > 0
               THEN pending' = Append(pending, [kind |-> "index", num |-> trace'[k].arg, id |-> ""])
               ELSE pending' = pending
     /\ (IsCall(trace', "resume") /\ pending # <<>> /\ Head(pending).kind = "index") =>
          /\ EvCount(trace', "afterHighlight") = 1
          /\ trace'[2] = Ev("afterHighlight", Head(pending).num)
          /\ pending' = Tail(pending)
     /\ (~IsCall(trace', "resume")) => EvCount(trace', "afterHighlight") = 0]_vars

\* the hook of setHighlightIndex(0) is called after the host emptied the list
C9_Witness == IsCall(trace, "resume") /\ trace[2] = Ev("afterHighlight", 0) /\ listRef.present /\ N = 0 /\ options.afterHighlightMethod

\* C10: the state is created with index -1 and the empty id, and every
\* mouseleave or focusout signal of the list wrapper leaves index at -1.
C10_ResetOnLeave ==
  /\ highlightIndex = -1 /\ highlightId = ""
  /\ [][(IsCall(trace', "mouseleave") \/ IsCall(trace', "focusout")) => highlightIndex' = -1]_vars

\* the list wrapper lost focus while the second item was highlighted
C10_Witness == IsCall(trace, "focusout") /\ highlightIndex = -1 /\ highlightId = "b" /\ pending # <<>>

\* the continuation a highlight-setting step with events tr suspends
OwnEntry(tr) ==
  IF tr[1].ev = "call:setHighlightIndex" THEN [kind |-> "index", num |-> tr[1].arg, id |-> ""]
  ELSE [kind |-> "id", num |-> 0, id |-> tr[1].id]

\* C11: a highlight-setting call made while an earlier call still waits for
\* its $nextTick writes index and id as if it were alone (last write wins)
\* and, where it awaits, suspends its continuation behind the earlier one;
\* the continuations resume oldest first, each calling the hook once for
\* its own call, and a resumption changes neither index nor id.
C11_LastWriteWins ==
  [][/\ ((IsCall(trace', "call:setHighlightIndex") \/ IsCall(trace', "call:setHighlightId")) /\ pending # <<>>) =>
          /\ IsCall(trace', "call:setHighlightIndex") => (highlightIndex' = trace'[1].arg /\ highlightId' = _getItemId(listRef, trace'[1].arg))
          /\ IsCall(trace', "call:setHighlightId") => (highlightId' = trace'[1].id /\ highlightIndex' = _getItemIndex(listRef, trace'[1].id))
          /\ pending' = IF options.afterHighlightMethod /\ listRef.present /\ N > 0 THEN Append(pending, OwnEntry(trace')) ELSE pending
     /\ (IsCall(trace', "resume") /\ pending # <<>>) =>
          /\ pending' = Tail(pending)
          /\ EvCount(trace', "afterHighlight") = 1
          /\ trace'[2].arg = (IF Head(pending).kind = "index" THEN Head(pending).num ELSE _getItemIndex(listRef, Head(pending).id))
          /\ highlightIndex' = highlightIndex /\ highlightId' = highlightId]_vars

\* setHighlightIndex(0), then setHighlightId of the second item before the
\* first resumed: both continuations wait in call order, the state is the second's
C11_Witness ==
  /\ Len(pending) = 2 /\ pending[1] = [kind |-> "index", num |-> 0, id |-> ""] /\ pending[2].kind = "id"
  /\ listRef.present /\ N = 2 /\ pending[2].id = listRef.items[2]
  /\ highlightId = listRef.items[2] /\ highlightIndex = 1 /\ IsCall(trace, "call:setHighlightId")

\* C12: on a list of N >= 1 items jumpToEnd (and onEndKey) writes index N-1
\* and jumpToBeginning (and onHomeKey) writes index 0 in one step, from any
\* prior index, by a single setHighlightIndex and so with at most one
\* continuation (one hook call) more.
C12_JumpIsOneStep ==
  [][(listRef.present /\ N >= 1) =>
       /\ (IsCall(trace', "call:jumpToEnd") \/ IsCall(trace', "call:onEndKey")) =>
            /\ highlightIndex' = N - 1 /\ highlightId' = listRef.items[N]
            /\ EvCount(trace', "setHighlightIndex") = 1 /\ EvCount(trace', "afterHighlight") = 0
            /\ Len(pending') = Len(pending) + (IF options.afterHighlightMethod THEN 1 ELSE 0)
       /\ (IsCall(trace', "call:jumpToBeginning") \/ IsCall(trace', "call:onHomeKey")) =>
            /\ highlightIndex' = 0 /\ highlightId' = listRef.items[1]
            /\ EvCount(trace', "setHighlightIndex") = 1 /\ EvCount(trace', "afterHighlight") = 0
            /\ Len(pending') = Len(pending) + (IF options.afterHighlightMethod THEN 1 ELSE 0)]_vars

\* jumpToEnd on a two-item list: the last item is highlighted by one call
C12_Witness == IsCall(trace, "call:jumpToEnd") /\ listRef.present /\ N = 2 /\ highlightIndex = 1 /\ highlightId = listRef.items[2] /\ Len(pending) = 1

LookupCalls == {"call:_itemsLength", "call:_getItemIndex", "call:_getItemId"}

Positions(tr, evs) == {i \in 1..Len(tr) : tr[i].ev \in evs}

\* C14: every onUpKey or onDownKey call with an open hook configured calls
\* the open hook exactly once, before the index is changed or a boundary
\* hook is called, also on a call that overruns a boundary; jumpToBeginning,
\* jumpToEnd, onHomeKey and onEndKey never call the open hook.
C14_OpenFirst ==
  [][/\ ((IsCall(trace', "call:onUpKey") \/ IsCall(trace', "call:onDownKey")) /\ options.openMethod) =>
          /\ EvCount(trace', "open") = 1
          /\ \A i \in Positions(trace', {"open"}) :
               \A j \in Positions(trace', {"setHighlightIndex", "beginningOfList", "endOfList"}) : i < j
     /\ (\E m \in {"call:jumpToBeginning", "call:jumpToEnd", "call:onHomeKey", "call:onEndKey"} : IsCall(trace', m)) =>
          EvCount(trace', "open") = 0]_vars

\* onDownKey overran the end with both hooks configured: open came first
C14_Witness ==
  /\ IsCall(trace, "call:onDownKey") /\ options.openMethod /\ options.endOfListMethod
  /\ trace[2].ev = "open" /\ EvCount(trace, "endOfList") = 1
  /\ listRef.present /\ N = 2 /\ highlightIndex = 1

\* C15: onUpKey called with index <= 0 (the initial -1 included) and
\* onDownKey called with index >= count - 1 change neither index nor id and
\* call no after-highlight hook, with or without a boundary hook.
C15_OverrunKeepsState ==
  [][((IsCall(trace', "call:onUpKey") /\ highlightIndex <= 0)
        \/ (IsCall(trace', "call:onDownKey") /\ highlightIndex # Undefined /\ highlightIndex >= _itemsLength(listRef) - 1)) =>
       /\ highlightIndex' = highlightIndex
       /\ highlightId' = highlightId
       /\ pending' = pending
       /\ EvCount(trace', "afterHighlight") = 0
       /\ EvCount(trace', "setHighlightIndex") = 0]_vars

\* onUpKey was called from the initial state of a two-item list with no
\* beginning-of-list hook: nothing is highlighted
C15_Witness ==
  /\ IsCall(trace, "call:onUpKey") /\ ~options.beginningOfListMethod /\ options.afterHighlightMethod
  /\ highlightIndex = -1 /\ highlightId = "" /\ pending = <<>>
  /\ listRef.present /\ N = 2

\* C16: after every onUpKey / onDownKey call, moved or overrun, scrolling
\* happens iff scrollToOnHighlight is on and there is an active item,
\* focusing iff focusOnKeyboardNavigation is on and there is an active
\* item, each once, both after the index update and the boundary hook.
C16_SideEffectsGated ==
  [][(IsCall(trace', "call:onUpKey") \/ IsCall(trace', "call:onDownKey")) =>
       /\ EvCount(trace', "scrollIntoView") = (IF scrollToOnHighlight /\ activeItemEl THEN 1 ELSE 0)
       /\ EvCount(trace', "focus") = (IF focusOnKeyboardNavigation /\ activeItemEl THEN 1 ELSE 0)
       /\ \A i \in Positions(trace', {"scrollIntoView", "focus"}) :
            \A j \in Positions(trace', {"open", "setHighlightIndex", "beginningOfList", "endOfList"}) : j < i
       /\ \A i \in Positions(trace', {"scrollIntoView"}) : \A j \in Positions(trace', {"focus"}) : i < j]_vars

\* onUpKey moved the highlight with scrolling off and focusing on: the
\* item was focused, and not scrolled to
C16_Witness ==
  /\ IsCall(trace, "call:onUpKey") /\ ~scrollToOnHighlight /\ focusOnKeyboardNavigation /\ activeItemEl
  /\ EvCount(trace, "setHighlightIndex") = 1 /\ highlightIndex = 0
  /\ EvCount(trace, "focus") = 1 /\ EvCount(trace, "scrollIntoView") = 0

\* C18: for any index and any current item count, after onDownKey either
\* index' = index + 1 <= count - 1 or index' = index; an index left stale
\* by a shrunken list (index >= count) is not clamped by onDownKey (only
\* the end-of-list hook is called) and is lowered by exactly one per
\* onUpKey.
C18_StaleLoweredByUp ==
  [][/\ IsCall(trace', "call:onDownKey") =>
          /\ \/ highlightIndex' = highlightIndex + 1 /\ highlightIndex' <= _itemsLength(listRef) - 1
             \/ highlightIndex' = highlightIndex
          /\ highlightIndex >= _itemsLength(listRef) =>
               /\ highlightIndex' = highlightIndex
               /\ EvCount(trace', "endOfList") = (IF options.endOfListMethod THEN 1 ELSE 0)
     /\ (IsCall(trace', "call:onUpKey") /\ highlightIndex >= _itemsLength(listRef)) =>
          highlightIndex' = highlightIndex - 1]_vars

\* C18 as amended: as C18, but onUpKey lowers a stale index by exactly one
\* only while it is above 0; a stale index 0 (over an emptied or missing
\* list) is left at 0.
C18_NeverPastLast ==
  [][/\ IsCall(trace', "call:onDownKey") =>
          /\ \/ highlightIndex' = highlightIndex + 1 /\ highlightIndex' <= _itemsLength(listRef) - 1
             \/ highlightIndex' = highlightIndex
          /\ highlightIndex >= _itemsLength(listRef) =>
               /\ highlightIndex' = highlightIndex
               /\ EvCount(trace', "endOfList") = (IF options.endOfListMethod THEN 1 ELSE 0)
     /\ (IsCall(trace', "call:onUpKey") /\ highlightIndex >= _itemsLength(listRef)) =>
          highlightIndex' = (IF highlightIndex > 0 THEN highlightIndex - 1 ELSE highlightIndex)]_vars

\* onDownKey was called with index 1 over a list shrunk to one item: the
\* index stayed 1 and the end-of-list hook was called
C18_Witness ==
  /\ IsCall(trace, "call:onDownKey") /\ listRef.present /\ N = 1
  /\ highlightIndex = 1 /\ EvCount(trace, "endOfList") = 1

\* C19: when the after-highlight hook is called with argument n by
\* setHighlightIndex(n), highlightIndex equals n, for every sequence of
\* navigation calls, also calls made before the previous call has resumed.
C19_HookSeesItsIndex ==
  [][(IsCall(trace', "resume") /\ pending # <<>> /\ Head(pending).kind = "index") =>
       (trace'[2].ev = "afterHighlight" /\ trace'[2].arg = highlightIndex')]_vars

\* C19 as amended: the hook of setHighlightIndex(n) is called with n; the
\* index equals n then if no later navigation call wrote the index before
\* the resumption (no later call waits), and otherwise it is the target of
\* the latest call.
C19_HookSeesNewestIndex ==
  [][(IsCall(trace', "resume") /\ pending # <<>> /\ Head(pending).kind = "index") =>
       /\ trace'[2].ev = "afterHighlight" /\ trace'[2].arg = Head(pending).num
       /\ highlightIndex' = pending[Len(pending)].num
       /\ Len(pending) = 1 => trace'[2].arg = highlightIndex']_vars

\* the one waiting call has resumed: its hook received 1, the index is 1
C19_Witness ==
  /\ IsCall(trace, "resume") /\ pending = <<>>
  /\ trace[2] = Ev("afterHighlight", 1) /\ highlightIndex = 1
  /\ listRef.present /\ N = 2

Unmatched(id) == listRef.present /\ N > 0 /\ \A k \in DOMAIN listRef.items : listRef.items[k] # id

\* C20: setHighlightId(id) with an id that matches no item of a present,
\* non-empty list makes the index -1 and the stored id the unmatched id,
\* and the after-highlight hook, if configured, is still called once,
\* with -1.
C20_UnmatchedIdGoesIdle ==
  [][/\ (IsCall(trace', "call:setHighlightId") /\ Unmatched(trace'[1].id)) =>
          /\ highlightIndex' = -1
          /\ highlightId' = trace'[1].id
          /\ pending' = (IF options.afterHighlightMethod
                         THEN Append(pending, [kind |-> "id", num |-> 0, id |-> trace'[1].id])
                         ELSE pending)
     /\ (IsCall(trace', "resume") /\ pending # <<>> /\ Head(pending).kind = "id" /\ Unmatched(Head(pending).id)) =>
          /\ EvCount(trace', "afterHighlight") = 1
          /\ trace'[2] = Ev("afterHighlight", -1)
          /\ pending' = Tail(pending)]_vars

\* the call with the unmatched id has resumed over a two-item list: the
\* hook received -1, the index is -1 and the id is the unmatched one
C20_Witness ==
  /\ IsCall(trace, "resume") /\ trace[2] = Ev("afterHighlight", -1)
  /\ highlightIndex = -1 /\ highlightId = NoSuchId
  /\ listRef.present /\ N = 2 /\ pending = <<>>

HasType(type) == formattedMessages.present /\ \E k \in DOMAIN formattedMessages.list : formattedMessages.list[k].type = type

\* the positions of the messages of the given type with a non-empty text
Kept(type) == {k \in DOMAIN formattedMessages.list : formattedMessages.list[k].type = type /\ formattedMessages.list[k].message # ""}

\* the state by the priority error > warning > success
Priority ==
  CASE HasType("error") -> "error"
    [] ~HasType("error") /\ HasType("warning") -> "warning"
    [] ~HasType("error") /\ ~HasType("warning") /\ HasType("success") -> "success"
    [] OTHER -> Null

\* C17: getValidationState returns 'error' if any message has type error,
\* else 'warning' if any has type warning, else 'success' if any has type
\* success, else null (also for a missing list); filterFormattedMessages
\* returns exactly the messages, in original order, whose type is that
\* state and whose text is non-empty.
C17_HighestPriorityState ==
  /\ returned.fn = "getValidationState" => returned.state = Priority
  /\ returned.fn = "filterFormattedMessages" =>
       /\ Len(returned.list) = (IF Priority = Null THEN 0 ELSE Cardinality(Kept(Priority)))
       /\ \A i \in DOMAIN returned.list :
            \E k \in Kept(Priority) :
              /\ Cardinality({j \in Kept(Priority) : j <= k}) = i
              /\ returned.list[i] = formattedMessages.list[k]
  /\ returned.fn = "hasFormattedMessageOfType" => (returned.has <=> (returned.type # "" /\ HasType(returned.type)))

\* filterFormattedMessages was called on a warning with text followed by an
\* error with text: only the error is returned
C17_Witness ==
  /\ returned.fn = "filterFormattedMessages"
  /\ formattedMessages.present
  /\ formattedMessages.list = <<[message |-> "m", type |-> "warning"], [message |-> "n", type |-> "error"]>>
  /\ returned.list = <<[message |-> "n", type |-> "error"]>>

\* C21: no two getUniqueString calls with the same prefix return the same
\* string: the counter grows by exactly one per call, whatever the prefix,
\* and no step resets or lowers it.
C21_NeverRepeats ==
  [][/\ UNIQUE_ID_COUNTER' >= UNIQUE_ID_COUNTER
     /\ IsCall(trace', "call:getUniqueString") =>
          /\ UNIQUE_ID_COUNTER' = UNIQUE_ID_COUNTER + 1
          /\ Len(uniqueStrings') = Len(uniqueStrings) + 1
          /\ \A k \in DOMAIN uniqueStrings :
               /\ uniqueStrings'[k] = uniqueStrings[k]
               /\ uniqueStrings[k].prefix = uniqueStrings'[Len(uniqueStrings')].prefix =>
                    uniqueStrings[k].string # uniqueStrings'[Len(uniqueStrings')].string
     /\ ~IsCall(trace', "call:getUniqueString") => UNIQUE_ID_COUNTER' = UNIQUE_ID_COUNTER]_vars

\* eleven calls: the first with prefix a1 and the eleventh with prefix a
\* both returned a10, the calls with the same prefix all differ
C21_Witness ==
  /\ IsCall(trace, "call:getUniqueString") /\ UNIQUE_ID_COUNTER = 11
  /\ uniqueStrings[1] = [prefix |-> <<"a", "1">>, string |-> <<"a", "1", "0">>]
  /\ uniqueStrings[11] = [prefix |-> <<"a">>, string |-> <<"a", "1", "0">>]
  /\ uniqueStrings[2] = [prefix |-> <<"a">>, string |-> <<"a", "1">>]

====
